---- MODULE Spec2Model ----
(***************************************************************************)
(* The travel-planner workflow: the nine nodes of backend/nodes, the four  *)
(* routing predicates of backend/utils/routing_helper.py, the graph of     *)
(* backend/graph.py and the websocket endpoint of app.py.                  *)
(*                                                                         *)
(* Python values.  A field that may be missing or None is an option: None  *)
(* is the empty set and Some(x) the singleton {x}.  A dict keyed by URL is *)
(* the set of its keys.  A raised exception is the string naming its type. *)
(***************************************************************************)
EXTENDS Integers, Sequences, FiniteSets, TLC

\* ---------------------------------------------------------------- bounds
\* Longest cluster list the clustering reply holds in a run.
MaxClusters == 1
\* Longest cluster list offered to a manual selection applied on its own.
MaxSelectable == 3
\* Largest grade the grading reply holds (replies are 0..MaxGrade).
MaxGrade == 4
\* Longest run of replies fed to one manual selection.
MaxReplies == 2
\* The first MaxLog entries of messages and of the client's feed are kept.
MaxLog == 3
MaxDay == 3
MaxBudget == 2
MaxEnrichClusters == 5
MaxUrls == 6
MaxExtracted == 21
MaxResults == 2
MaxQueries == 2

\* The URLs the capabilities return, and a string that is no URL.
URLS == {"a", "b"}
NotAUrl == "not a url"

None == {}
Some(x) == {x}
Val(o) == CHOOSE x \in o : TRUE

\* Sequences over S of length 0..n.
SeqUpTo(S, n) == UNION {[1..k -> S] : k \in 0..n}

VARIABLES
    pc,          \* position of the endpoint / the node the graph runs next
    state,       \* the ResearchState of the run (the graph's channels)
    websocket,   \* TRUE when the nodes hold an interactive channel
    keeps_undeclared, \* whether the engine stores keys its schemas lack
    last,        \* the node run last, "" before the first
    called,      \* the routing predicate evaluated by the last step, or ""
    given,       \* the state the last routing predicate was given
    received,    \* the replies the last manual selection received
    ret,         \* what the last operation gave: a route, or an exception
    sent,        \* texts sent to the client, the first MaxLog of them
    terminal,    \* the terminal message the client received, or "none"
    update,      \* the partial state the last node returned
    replied,     \* what the generation capability answered the last node
    notified,    \* texts the stream loop passed to the progress callback
                 \* for the last streamed state
    connected,   \* whether the client's connection is still open
    late,        \* who attempted a send after the connection was dropped
    self_state,  \* Graph.state, None until initialize_state
    server,      \* the Graph objects of the connections the server handles
    data,        \* the payload the endpoint received, None before
    extracted,   \* URLs sent to the extraction so far in the run, counted
                 \* up to MaxExtracted, where a step counts them
    issued,      \* the searches the Research executions of the run have issued:
                 \* those of the first and of the latest one, and whether the
                 \* calendar year has changed since the run started
    completed    \* the searches of a Research execution that have completed,
                 \* in the order of their completion

vars == <<pc, state, websocket, keeps_undeclared, last, called, given, received, ret, sent, terminal,
          update, replied, notified, connected, late, self_state, server, data, extracted, completed,
          issued>>

\* ------------------------------------------------------ routing predicates
Exceptions == {"AttributeError", "TypeError", "KeyError", "ValueError", "Exception"}

\* A slip: a negative index read as "no cluster chosen".
route_based_on_cluster_nonneg(s) ==
    IF s.chosen_cluster # None /\ Val(s.chosen_cluster) >= 0
    THEN "enrich_docs" ELSE "manual_cluster_selection"

\* routing_helper.py:12-28
route_based_on_cluster(s) ==
    IF s.chosen_cluster # None THEN "enrich_docs" ELSE "manual_cluster_selection"

\* A slip: > for >=, index 0 sent back to clustering.
route_after_manual_selection_positive(s) ==
    IF s.chosen_cluster = None THEN "TypeError"
    ELSE IF Val(s.chosen_cluster) > 0 THEN "enrich_docs" ELSE "cluster"

\* routing_helper.py:30-46.  None >= 0 raises TypeError.
route_after_manual_selection(s) ==
    IF s.chosen_cluster = None THEN "TypeError"
    ELSE IF Val(s.chosen_cluster) >= 0 THEN "enrich_docs" ELSE "cluster"

min_doc_count == 2

\* A slip: <= for <, two documents sent back to research.
should_continue_research_upto(s) ==
    IF s.documents = None THEN "KeyError"
    ELSE IF Cardinality(Val(s.documents)) <= min_doc_count THEN "research"
    ELSE "generate_report"

\* A slip: any document at all counted as enough.
should_continue_research_nonempty(s) ==
    IF s.documents = None THEN "KeyError"
    ELSE IF Cardinality(Val(s.documents)) < 1 THEN "research"
    ELSE "generate_report"

\* routing_helper.py:48-65.  state["documents"] raises KeyError when missing.
should_continue_research(s) ==
    IF s.documents = None THEN "KeyError"
    ELSE IF Cardinality(Val(s.documents)) < min_doc_count THEN "research"
    ELSE "generate_report"

\* routing_helper.py:67-84.  evaluation.grade is an attribute access: it
\* raises AttributeError on None and on a dict (a dict has keys, no attributes).
route_based_on_evaluation(s) ==
    IF s.eval = None THEN "AttributeError"
    ELSE IF Val(s.eval).type = "dict" THEN "AttributeError"
    ELSE IF Val(s.eval).grade = 1 THEN "research" ELSE "publish"

\* ------------------------------------------------------------------ nodes
\* A node execution yields an outcome: the exception it raised ("" when it
\* returned), the partial state it returned, the texts it sent itself on
\* the websocket, and the answer of the generation capability it parsed.
NoReply == [shape |-> "none"]
Msg(c) == [content |-> c, is_manual_selection |-> FALSE]
ManualMsg(c) == [content |-> c, is_manual_selection |-> TRUE]
Returned(u, w) == [exc |-> "", upd |-> u, ws |-> w, waiting |-> FALSE, reply |-> NoReply]
Raised(e, w) == [exc |-> e, upd |-> [messages |-> <<>>], ws |-> w, waiting |-> FALSE, reply |-> NoReply]
Waiting(w) == [exc |-> "", upd |-> [messages |-> <<>>], ws |-> w, waiting |-> TRUE, reply |-> NoReply]

\* initial_grounding.py:46-86.  Every search may return any URLs or raise;
\* what was merged before the exception is kept.
initial_search(s) ==
    {Returned([messages |-> <<Msg(m)>>, initial_data |-> Some(S)], <<>>) :
        S \in SUBSET URLS, m \in {"ground: gathered", "ground: error"}}

\* sub_questions.py:19-93.  sub_queries is None on any exception, else the
\* structured output: a list of queries, empty or not.
generate_sub_questions(s) ==
    {Returned([messages |-> <<Msg("decompose: error")>>, sub_queries |-> None], <<>>)}
    \cup
    (IF s.initial_data = None THEN {}
     ELSE {Returned([messages |-> <<Msg("decompose: generated")>>,
                     sub_queries |-> Some(q),
                     initial_data |-> s.initial_data], <<>>) : q \in {"no queries", "queries"}})

\* research.py:21-75.  One search per sub-query, each returning any URLs or
\* [] on error; results are merged by URL, first seen kept.
tavily_search(sub_queries) == IF sub_queries = "no queries" THEN {{}} ELSE SUBSET URLS

\* research.py:25-37.  The request one sub-query is searched with: its text
\* followed by the calendar year at the time of the search, and fixed
\* parameters.
search_params(query, year) ==
    [query |-> <<query, year>>, search_depth |-> "advanced"]

\* A slip: no search issued once the state holds documents.
search_tasks_when_empty(s, year) ==
    IF s.sub_queries = None \/ s.sub_queries = Some("no queries") THEN <<>>
    ELSE IF s.documents # None THEN <<>>
    ELSE <<search_params("query", year)>>

\* research.py:58-59 and 84-86.  The searches a Research execution issues:
\* one for every sub-query, none when sub_queries is None.
search_tasks(s, year) ==
    IF s.sub_queries = None \/ s.sub_queries = Some("no queries") THEN <<>>
    ELSE <<search_params("query", year)>>

\* No Research execution yet.
NoSearches == [year |-> "this year", first |-> None, latest |-> None]

\* What the search capability answered a node that issued requests.
Searched == [shape |-> "searched"]

\* A slip: sub_queries read outside the try.
research_unguarded(s) ==
    IF s.sub_queries = None
    THEN {Raised("AttributeError", <<>>)}
    ELSE {[Returned([messages |-> <<Msg("research: found")>>, documents |-> Some(S)], <<>>)
             EXCEPT !.reply = IF Val(s.sub_queries) = "queries" THEN Searched ELSE NoReply] :
            S \in tavily_search(Val(s.sub_queries))}

\* research.py:77-110.  documents is reset, then filled; sub_queries = None
\* raises AttributeError inside the try, before any search is requested,
\* leaving documents empty.  An empty list of queries requests no search.
research(s) ==
    IF s.sub_queries = None
    THEN {Returned([messages |-> <<Msg("research: error")>>, documents |-> Some({})], <<>>)}
    ELSE {[Returned([messages |-> <<Msg("research: found")>>, documents |-> Some(S)], <<>>)
             EXCEPT !.reply = IF Val(s.sub_queries) = "queries" THEN Searched ELSE NoReply] :
            S \in tavily_search(Val(s.sub_queries))}

\* -------------------------------------------------------------- clustering
\* The url lists a cluster of the reply may hold.
ClusterUrlLists == {<<>>, <<NotAUrl>>, <<"a">>, <<"a", "b">>}

\* An entry of the reply's "clusters" value: a valid cluster, a dict whose
\* category is no string, a dict whose urls is no list, or a value that is
\* no dict at all.
ClusterEntries ==
    {[kind |-> "ok", urls |-> u] : u \in ClusterUrlLists}
    \cup {[kind |-> "bad_category", urls |-> <<"a", "b">>],
          [kind |-> "bad_urls", urls |-> <<>>],
          [kind |-> "not_dict", urls |-> <<>>]}

\* A document_clusters value: a list of entries, a value that is neither
\* iterable nor sized (a number, null), or another container (a string, an
\* object) whose elements are no dicts.
ListOf(items) == [type |-> "list", items |-> items]
Scalar == [type |-> "scalar", items |-> <<>>]
Container(n) == [type |-> "container", items |-> [i \in 1..n |-> [kind |-> "not_dict", urls |-> <<>>]]]

\* What the generation capability answers to the clustering prompt, with a
\* clusters value of at most n elements drawn from entries.
ClusterRepliesOf(entries, n) ==
    {[shape |-> sh, clusters |-> ListOf(<<>>)] :
        sh \in {"exception", "no_json", "no_json_end", "bad_json", "no_clusters_key"}}
    \cup {[shape |-> "parsed", clusters |-> c] :
            c \in {ListOf(items) : items \in SeqUpTo(entries, n)}
                  \cup {Scalar} \cup {Container(k) : k \in 0..n}}

ClusterReplies == ClusterRepliesOf(ClusterEntries, MaxClusters)

\* cluster.py:186-207.  "" when the parsed reply is valid, else the exception.
validate_clusters(reply) ==
    IF reply.shape = "no_clusters_key" THEN "ValueError"
    ELSE IF reply.clusters.type # "list" THEN "ValueError"
    ELSE LET items == reply.clusters.items
             bad == {i \in 1..Len(items) : items[i].kind # "ok"}
             first == CHOOSE i \in bad : \A j \in bad : i <= j
         IN IF bad = {} THEN ""
            ELSE IF items[first].kind = "not_dict" THEN "AttributeError"
            ELSE "ValueError"

\* cluster.py:22-103.  clusters starts as {"clusters": []} and is replaced by
\* whatever json.loads returns, before validation; the value returned is
\* clusters.get('clusters', []) also when validation failed.
cluster(s, reply) ==
    IF reply.shape \in {"exception", "no_json", "no_json_end", "bad_json"}
    THEN [messages |-> <<Msg("cluster: error")>>, document_clusters |-> Some(ListOf(<<>>))]
    ELSE IF reply.shape = "no_clusters_key"
    THEN [messages |-> <<Msg("cluster: error")>>, document_clusters |-> Some(ListOf(<<>>))]
    ELSE IF validate_clusters(reply) # ""
    THEN [messages |-> <<Msg("cluster: error")>>, document_clusters |-> Some(reply.clusters)]
    ELSE [messages |-> <<Msg("cluster: organized")>>, document_clusters |-> Some(reply.clusters)]

\* A slip: the choice left open when there are several clusters.
choose_cluster_left_open(s) ==
    [messages |-> <<Msg("cluster: chosen")>>, chosen_cluster |-> None]

\* cluster.py:120-129
choose_cluster(s) ==
    [messages |-> <<Msg("cluster: chosen")>>, chosen_cluster |-> Some(0)]

\* cluster.py:131-148.  The update holds chosen_cluster and
\* document_clusters only: the messages of cluster and choose_cluster are
\* not returned.
ClusterNode_run(s, ws) ==
    {LET cluster_result == cluster(s, reply)
         s1 == [s EXCEPT !.document_clusters = cluster_result.document_clusters]
         choose_result == choose_cluster(s1)
     IN [Returned([chosen_cluster |-> choose_result.chosen_cluster,
                   document_clusters |-> s1.document_clusters],
                  IF ws THEN <<"organizing">> ELSE <<>>) EXCEPT !.reply = reply] :
        reply \in ClusterReplies}

\* -------------------------------------------------------- manual selection
\* Texts the client may reply with.
ReplyTexts == {"0", "1", "2", "3", "4", "9", "-1", " 2 ", "abc"}

\* A slip: text that is no number read as 0.
int_or_zero(text) ==
    CASE text = "0" -> Some(0)
      [] text = "1" -> Some(1)
      [] text = "2" -> Some(2)
      [] text = " 2 " -> Some(2)
      [] text = "3" -> Some(3)
      [] text = "4" -> Some(4)
      [] text = "9" -> Some(9)
      [] text = "-1" -> Some(0 - 1)
      [] OTHER -> Some(0)

\* Python int(text): the integer a decimal literal (surrounding blanks
\* allowed) denotes, ValueError (None here) for any other text.
int(text) ==
    CASE text = "0" -> Some(0)
      [] text = "1" -> Some(1)
      [] text = "2" -> Some(2)
      [] text = " 2 " -> Some(2)
      [] text = "3" -> Some(3)
      [] text = "4" -> Some(4)
      [] text = "9" -> Some(9)
      [] text = "-1" -> Some(0 - 1)
      [] OTHER -> None

\* len(clusters): TypeError for a value that has no length.
len_clusters(dc) == IF dc.type = "scalar" THEN None ELSE Some(Len(dc.items))

\* classes.py:26-37.  Only a DocumentCluster carries the attribute
\* company_name; the entries of document_clusters are values parsed from
\* JSON (dicts, strings, numbers), which do not.
has_company_name(entry) == entry.kind = "DocumentCluster"

\* A slip: the reply used as the index, without the - 1.
RECURSIVE selection_loop_one_off(_, _, _)
selection_loop_one_off(clusters, replies, w) ==
    IF replies = <<>> THEN Waiting(w)
    ELSE LET selection == int(Head(replies))
             selected_cluster_index == Val(selection)
         IN IF selection = None
            THEN selection_loop_one_off(clusters, Tail(replies), Append(w, "invalid input"))
            ELSE IF selected_cluster_index = 0 - 1
            THEN Returned([messages |-> <<ManualMsg("manual: recluster")>>,
                           chosen_cluster |-> Some(selected_cluster_index)],
                          Append(w, "manual: recluster"))
            ELSE IF 0 <= selected_cluster_index
                    /\ selected_cluster_index < Val(len_clusters(clusters))
            THEN IF has_company_name(clusters.items[selected_cluster_index + 1])
                 THEN Returned([messages |-> <<ManualMsg("manual: selected")>>,
                                chosen_cluster |-> Some(selected_cluster_index)],
                               Append(w, "manual: selected"))
                 ELSE Raised("AttributeError", w)
            ELSE selection_loop_one_off(clusters, Tail(replies), Append(w, "invalid choice"))

\* manual_cluster_select.py:18-40, the loop fed with the replies received so
\* far; w holds the texts already sent.  clusters[i].company_name is an
\* attribute access on an entry of document_clusters.
RECURSIVE selection_loop(_, _, _)
selection_loop(clusters, replies, w) ==
    IF replies = <<>> THEN Waiting(w)
    ELSE LET selection == int(Head(replies))
             selected_cluster_index == Val(selection) - 1
         IN IF selection = None
            THEN selection_loop(clusters, Tail(replies), Append(w, "invalid input"))
            ELSE IF selected_cluster_index = 0 - 1
            THEN Returned([messages |-> <<ManualMsg("manual: recluster")>>,
                           chosen_cluster |-> Some(selected_cluster_index)],
                          Append(w, "manual: recluster"))
            ELSE IF 0 <= selected_cluster_index
                    /\ selected_cluster_index < Val(len_clusters(clusters))
            THEN IF has_company_name(clusters.items[selected_cluster_index + 1])
                 THEN Returned([messages |-> <<ManualMsg("manual: selected")>>,
                                chosen_cluster |-> Some(selected_cluster_index)],
                               Append(w, "manual: selected"))
                 ELSE Raised("AttributeError", w)
            ELSE selection_loop(clusters, Tail(replies), Append(w, "invalid choice"))

\* A slip: the client is asked whether or not a websocket exists.
manual_cluster_selection_always_asks(s, ws, replies) ==
    IF s.document_clusters = None THEN Raised("KeyError", <<>>)
    ELSE IF len_clusters(Val(s.document_clusters)) = None THEN Raised("TypeError", <<>>)
    ELSE selection_loop(Val(s.document_clusters), replies, <<"manual: prompt">>)

\* manual_cluster_select.py:7-44
manual_cluster_selection(s, ws, replies) ==
    IF s.document_clusters = None THEN Raised("KeyError", <<>>)
    ELSE IF len_clusters(Val(s.document_clusters)) = None THEN Raised("TypeError", <<>>)
    ELSE IF ws
    THEN selection_loop(Val(s.document_clusters), replies, <<"manual: prompt">>)
    ELSE Returned([messages |-> <<ManualMsg("manual: needed")>>,
                   chosen_cluster |-> Some(0 - 1)], <<>>)

ManualSelectionNode_run(s, ws) ==
    {manual_cluster_selection(s, ws, replies) : replies \in SeqUpTo(ReplyTexts, MaxReplies)}

\* ------------------------------------------------------------- enrichment
MAX_URLS_PER_CLUSTER == 5
MAX_TOTAL_URLS == 20

\* enrich_docs.py:91-94
is_valid_url(url) == url # NotAUrl

Take(seq, n) == SubSeq(seq, 1, IF Len(seq) < n THEN Len(seq) ELSE n)

RECURSIVE Filter(_)
Filter(seq) ==
    IF seq = <<>> THEN <<>>
    ELSE IF is_valid_url(Head(seq)) THEN <<Head(seq)>> \o Filter(Tail(seq))
    ELSE Filter(Tail(seq))

\* A slip: the per-cluster cap left out.
process_cluster_uncapped(c) ==
    IF c.kind = "bad_urls" THEN <<>>
    ELSE Filter(c.urls)

\* enrich_docs.py:96-113.  A cluster whose urls is no list yields nothing.
process_cluster(c) ==
    IF c.kind = "bad_urls" THEN <<>>
    ELSE Take(Filter(c.urls), MAX_URLS_PER_CLUSTER)

\* enrich_docs.py:117-125.  None when an entry reached by the loop is no
\* dict (cluster.get raises AttributeError).
RECURSIVE collect(_, _)
collect(clusters, collected_urls) ==
    IF clusters = <<>> THEN Some(collected_urls)
    ELSE IF Head(clusters).kind = "not_dict" THEN None
    ELSE LET now == collected_urls \o process_cluster(Head(clusters))
         IN IF Len(now) >= MAX_TOTAL_URLS THEN Some(now)
            ELSE collect(Tail(clusters), now)

\* list(dict.fromkeys(seq)): the first occurrence of each element, in order.
RECURSIVE dedup(_, _)
dedup(seq, seen) ==
    IF seq = <<>> THEN <<>>
    ELSE IF Head(seq) \in seen THEN dedup(Tail(seq), seen)
    ELSE <<Head(seq)>> \o dedup(Tail(seq), seen \cup {Head(seq)})

\* enrich_docs.py:78-134
collect_and_validate_urls(clusters) ==
    LET collected_urls == collect(clusters, <<>>)
    IN IF collected_urls = None THEN None
       ELSE Some(dedup(Take(Val(collected_urls), MAX_TOTAL_URLS), {}))

Range(seq) == {seq[i] : i \in 1..Len(seq)}

\* A slip: only the chosen cluster's URLs are collected.
curate_chosen_only(s) ==
    IF s.document_clusters = None THEN {Raised("KeyError", <<>>)}
    ELSE LET dc == Val(s.document_clusters) IN
    IF dc.type = "scalar" THEN {Raised("TypeError", <<>>)}
    ELSE LET chosen == IF s.chosen_cluster # None /\ Val(s.chosen_cluster) + 1 \in 1..Len(dc.items)
                       THEN <<dc.items[Val(s.chosen_cluster) + 1]>> ELSE <<>> IN
    IF collect_and_validate_urls(chosen) = None
    THEN {Raised("AttributeError", <<>>)}
    ELSE LET urls_to_extract == Val(collect_and_validate_urls(chosen)) IN
    IF urls_to_extract = <<>>
    THEN {Returned([messages |-> <<Msg("enrich: no valid urls")>>, documents |-> Some({})], <<>>)}
    ELSE {Returned([messages |-> <<Msg("enrich: error")>>, documents |-> Some({})], <<>>)}
         \cup {Returned([messages |-> <<Msg(IF R = {} THEN "enrich: no content" ELSE "enrich: enriched")>>,
                         documents |-> Some(R)], <<>>) : R \in SUBSET Range(urls_to_extract)}

\* enrich_docs.py:19-76.  Iterating document_clusters and reading an entry
\* with .get happen outside the try: a value that is no list of dicts raises.
\* The extraction capability answers with records for any of the requested
\* URLs, or raises; the URLs fit one batch (at most 20 are collected).
curate(s) ==
    IF s.document_clusters = None THEN {Raised("KeyError", <<>>)}
    ELSE LET dc == Val(s.document_clusters) IN
    IF dc.type = "scalar" THEN {Raised("TypeError", <<>>)}
    ELSE IF collect_and_validate_urls(dc.items) = None
    THEN {Raised("AttributeError", <<>>)}
    ELSE LET urls_to_extract == Val(collect_and_validate_urls(dc.items)) IN
    IF urls_to_extract = <<>>
    THEN {Returned([messages |-> <<Msg("enrich: no valid urls")>>, documents |-> Some({})], <<>>)}
    ELSE {Returned([messages |-> <<Msg("enrich: error")>>, documents |-> Some({})], <<>>)}
         \cup {Returned([messages |-> <<Msg(IF R = {} THEN "enrich: no content" ELSE "enrich: enriched")>>,
                         documents |-> Some(R)], <<>>) : R \in SUBSET Range(urls_to_extract)}

\* ------------------------------------------------- generation, evaluation
\* generate_report.py:50-156.  Both branches return a report.
generate_itinerary(s) ==
    IF s.documents = None THEN {Raised("KeyError", <<>>)}
    ELSE {Returned([messages |-> <<Msg("generate: generated")>>, report |-> Some("itinerary")], <<>>),
          Returned([messages |-> <<Msg("generate: error")>>, report |-> Some("error report")], <<>>)}

\* generate_report.py:158-170
GenerateNode_run(s, ws) ==
    {IF o.exc # ""
     THEN [o EXCEPT !.ws = IF ws THEN <<"generating">> ELSE <<>>]
     ELSE [o EXCEPT !.ws = IF ws THEN <<"generating", "generation completed">> ELSE <<>>] :
        o \in generate_itinerary(s)}

\* An eval value: the dict the node builds or the dict json.loads returned.
EvalDict(g, gaps) == [type |-> "dict", grade |-> g, critical_gaps |-> gaps]
SyntheticEval == EvalDict(1, "synthetic")

\* What the generation capability answers to the grading prompt: it raises,
\* or its text is no JSON, or JSON that is no object holding "grade", or an
\* object with a grade and with or without critical_gaps.
GradingReplies ==
    {[shape |-> sh, grade |-> 0, critical_gaps |-> "absent"] :
        sh \in {"exception", "bad_json", "not_object", "no_grade"}}
    \cup {[shape |-> "graded", grade |-> g, critical_gaps |-> c] :
            g \in 0..MaxGrade, c \in {"absent", "listed"}}

\* A slip: a reply that cannot be graded escapes the node.
evaluate_itinerary_unguarded(s) ==
    IF s.report = None
    THEN {Returned([messages |-> <<Msg("eval: report not found")>>, eval |-> Some(SyntheticEval)], <<>>)}
    ELSE {[(IF reply.shape # "graded"
            THEN Raised("Exception", <<>>)
            ELSE Returned([messages |-> <<Msg(IF reply.grade = 1 THEN "eval: needs improvement"
                                              ELSE "eval: graded")>>,
                           eval |-> Some(EvalDict(reply.grade, reply.critical_gaps))], <<>>))
           EXCEPT !.reply = reply] :
            reply \in GradingReplies}

\* eval.py:15-120
evaluate_itinerary(s) ==
    IF s.report = None
    THEN {Returned([messages |-> <<Msg("eval: report not found")>>, eval |-> Some(SyntheticEval)], <<>>)}
    ELSE {[(IF reply.shape # "graded"
            THEN Returned([messages |-> <<Msg("eval: error")>>, eval |-> Some(SyntheticEval)], <<>>)
            ELSE Returned([messages |-> <<Msg(IF reply.grade = 1 THEN "eval: needs improvement"
                                              ELSE "eval: graded")>>,
                           eval |-> Some(EvalDict(reply.grade, reply.critical_gaps))], <<>>))
           EXCEPT !.reply = reply] :
            reply \in GradingReplies}

\* publish.py:20-70.  generate_travel_pdf catches its own errors; writing the
\* markdown file may raise.
format_output(s) ==
    IF s.report = None
    THEN {Returned([messages |-> <<Msg("publish: report not found")>>], <<>>)}
    ELSE {Returned([messages |-> <<Msg("publish: ready")>>], <<>>), Raised("Exception", <<>>)}

\* ------------------------------------------------------------ the workflow
Nodes == {"initial_grounding", "sub_questions_gen", "research", "cluster",
          "manual_cluster_selection", "enrich_docs", "generate_report",
          "eval_report", "publish"}

\* graph.py:73-83, the function registered for each node name.  r is what
\* the client replies while the node runs.
run(node, s, ws, r) ==
    CASE node = "initial_grounding" -> initial_search(s)
      [] node = "sub_questions_gen" -> generate_sub_questions(s)
      [] node = "research" -> research(s)
      [] node = "cluster" -> ClusterNode_run(s, ws)
      [] node = "manual_cluster_selection" -> {manual_cluster_selection(s, ws, r)}
      [] node = "enrich_docs" -> curate(s)
      [] node = "generate_report" -> GenerateNode_run(s, ws)
      [] node = "eval_report" -> evaluate_itinerary(s)
      [] node = "publish" -> format_output(s)

\* A slip: Research wired to Enrich, clustering left out.
edge_past_cluster(node, s) ==
    CASE node = "initial_grounding" -> "sub_questions_gen"
      [] node = "sub_questions_gen" -> "research"
      [] node = "research" -> "enrich_docs"
      [] node = "cluster" -> route_based_on_cluster(s)
      [] node = "manual_cluster_selection" -> route_after_manual_selection(s)
      [] node = "enrich_docs" -> should_continue_research(s)
      [] node = "generate_report" -> "eval_report"
      [] node = "eval_report" -> route_based_on_evaluation(s)
      [] node = "publish" -> "END"

\* graph.py:88-102, the edge leaving each node; "END" after the finish point.
edge(node, s) ==
    CASE node = "initial_grounding" -> "sub_questions_gen"
      [] node = "sub_questions_gen" -> "research"
      [] node = "research" -> "cluster"
      [] node = "cluster" -> route_based_on_cluster(s)
      [] node = "manual_cluster_selection" -> route_after_manual_selection(s)
      [] node = "enrich_docs" -> should_continue_research(s)
      [] node = "generate_report" -> "eval_report"
      [] node = "eval_report" -> route_based_on_evaluation(s)
      [] node = "publish" -> "END"

\* The routing predicate of a conditional edge, "" for a static edge.
predicate(node) ==
    CASE node = "cluster" -> "route_based_on_cluster"
      [] node = "manual_cluster_selection" -> "route_after_manual_selection"
      [] node = "enrich_docs" -> "should_continue_research"
      [] node = "eval_report" -> "route_based_on_evaluation"
      [] OTHER -> ""

\* research_state.py:17-31.  The channels ResearchState declares; report is
\* not one of them.
Declared == {"initial_data", "sub_queries", "documents", "document_clusters",
             "chosen_cluster", "eval", "messages"}

Last(seq) == seq[Len(seq)]

\* The merge of a node's update into the state: a returned field replaces
\* the field, messages are appended (research_state.py:31, add_messages);
\* the model keeps the first MaxLog messages and the last one.
Merge(s, upd, keeps) ==
    [k \in DOMAIN s |->
        IF k = "messages"
        THEN (IF "messages" \in DOMAIN upd THEN Take(s.messages \o upd.messages, MaxLog)
              ELSE s.messages)
        ELSE IF k = "last_message"
        THEN (IF "messages" \in DOMAIN upd /\ upd.messages # <<>>
              THEN Some(Last(upd.messages)) ELSE s.last_message)
        ELSE IF k \in DOMAIN upd /\ (k \in Declared \/ keeps) THEN upd[k]
        ELSE s[k]]

\* graph.py:106-118 and 140-146.  The state the run starts from.
InitialState(keeps) ==
    [initial_data |-> None, sub_queries |-> None, documents |-> None,
     document_clusters |-> None, chosen_cluster |-> None, eval |-> None,
     report |-> None,
     messages |-> IF keeps THEN <<Msg("system")>> ELSE <<>>,
     last_message |-> IF keeps THEN Some(Msg("system")) ELSE None]

\* A slip: the flag is not looked at.
progress_unfiltered(s) ==
    IF s.last_message # None
    THEN <<Val(s.last_message).content>>
    ELSE <<>>

\* graph.py:140-146, the body of the streaming loop: the last message of the
\* streamed state goes to the progress callback unless it is flagged.
progress(s) ==
    IF s.last_message # None /\ ~Val(s.last_message).is_manual_selection
    THEN <<Val(s.last_message).content>>
    ELSE <<>>

Push(log, texts) == Take(log \o texts, MaxLog)

\* ------------------------------------------------------------ the endpoint
\* app.py:45-52.  No connection accepted yet, no Graph built.
NoGraphs == <<>>

\* websocket.send_text on the client's connection (app.py:63 and 105,
\* manual_cluster_select.py:16-38): the texts reach the client while the
\* connection is open; after the client dropped it the call is still made.
Deliver(texts) == IF connected THEN Push(sent, texts) ELSE sent
Attempt(who, texts) == IF connected \/ texts = <<>> THEN {} ELSE {who}

\* base_models.py:36-56.  The fields of TravelPreferences the model
\* validator reads: dates as day numbers, budgets as non-negative amounts.
Preferences ==
    [start_date : 0..MaxDay, end_date : 0..MaxDay,
     budget_min : 0..MaxBudget, budget_max : 0..MaxBudget]

\* A slip: equal dates accepted.
validate_dates_and_budget_same_day(p) ==
    IF p.start_date > p.end_date
    THEN "ValueError: Start date must be earlier than the end date."
    ELSE IF p.budget_min > p.budget_max
    THEN "ValueError: Minimum budget must not exceed maximum budget."
    ELSE "valid"

\* base_models.py:73-87
validate_dates_and_budget(p) ==
    IF p.start_date >= p.end_date
    THEN "ValueError: Start date must be earlier than the end date."
    ELSE IF p.budget_min > p.budget_max
    THEN "ValueError: Minimum budget must not exceed maximum budget."
    ELSE "valid"

\* app.py:66.  What the client sends: text that is JSON or not; when it is,
\* the two date fields present and parseable, or one missing, or one that
\* is no date; and the preferences the fields spell.
PayloadPreferences ==
    {[start_date |-> 0, end_date |-> 1, budget_min |-> 1, budget_max |-> 1],
     [start_date |-> 1, end_date |-> 1, budget_min |-> 0, budget_max |-> 1],
     [start_date |-> 1, end_date |-> 0, budget_min |-> 0, budget_max |-> 1],
     [start_date |-> 0, end_date |-> 1, budget_min |-> 1, budget_max |-> 0]}
Payloads ==
    {[json |-> j, fields |-> f, preferences |-> p] :
        j \in BOOLEAN, f \in {"present", "missing", "unparseable"}, p \in PayloadPreferences}

\* app.py:66-77.  receive_json, the two strptime calls and the construction
\* of TravelPreferences: "valid", or the exception raised.
parse(payload) ==
    IF ~payload.json THEN "JSONDecodeError"
    ELSE IF payload.fields = "missing" THEN "KeyError"
    ELSE IF payload.fields = "unparseable" THEN "ValueError"
    ELSE IF validate_dates_and_budget(payload.preferences) # "valid" THEN "ValidationError"
    ELSE "valid"


Init ==
    /\ pc = "accepted"
    /\ keeps_undeclared \in BOOLEAN
    /\ state = InitialState(keeps_undeclared)
    /\ websocket = TRUE
    /\ last = ""
    /\ called = ""
    /\ given = state
    /\ received = <<>>
    /\ ret = ""
    /\ sent = <<>>
    /\ terminal = "none"
    /\ update = [messages |-> <<>>]
    /\ replied = NoReply
    /\ notified = <<>>
    /\ connected = TRUE
    /\ late = {}
    /\ self_state = Some(state)
    /\ server = NoGraphs
    /\ data = None
    /\ extracted = 0
    /\ completed = <<>>
    /\ issued = NoSearches

\* app.py:65-105.  The payload is received and validated; a valid one
\* starts the run (graph.py:120-139), whose first streamed value is the
\* initial state; any other one is answered with an error message: by
\* except ValidationError (91-94), by except Exception (95-98), or, for
\* text that is no JSON, by the outer except Exception (102-105).
Receive ==
    /\ pc = "accepted"
    /\ \E payload \in Payloads :
      /\ data' = Some(payload)
      /\ IF parse(payload) = "valid"
         THEN /\ pc' = "initial_grounding"
              /\ sent' = Deliver(progress(state))
              /\ notified' = progress(state)
              /\ terminal' = terminal
         ELSE /\ pc' = "finally"
              /\ notified' = notified
              /\ sent' = Deliver(<<IF parse(payload) = "ValidationError"
                                    THEN "invalid preferences" ELSE "unexpected error">>)
              /\ terminal' = IF parse(payload) = "ValidationError"
                             THEN "invalid preferences" ELSE "unexpected error"
    /\ UNCHANGED <<state, websocket, keeps_undeclared, last, called, given, received, ret, update, replied,
                   connected, late, self_state, server, extracted, completed, issued>>

\* One step of graph.astream (graph.py:140-146): the node at pc runs, its
\* update is merged, the new state is streamed to the progress callback and
\* the edge leaving the node names the next node.  An exception raised by
\* the node or by the routing predicate ends the run.  The callback's send
\* on a dropped connection returns or raises, as the transport decides; a
\* raise ends the run as well.
StepFrom(node, r) ==
    \E o \in run(node, state, websocket, r) :
        LET merged == Merge(state, o.upd, keeps_undeclared)
            nxt == edge(node, merged)
        IN /\ last' = node
           /\ received' = r
           /\ replied' = o.reply
           /\ IF o.waiting
              THEN /\ pc' = "awaiting reply"
                   /\ ret' = "waiting"
                   /\ sent' = Deliver(o.ws)
                   /\ late' = late \cup Attempt("node", o.ws)
                   /\ called' = ""
                   /\ update' = [messages |-> <<>>]
                   /\ notified' = <<>>
                   /\ UNCHANGED <<state, given>>
              ELSE IF o.exc # ""
              THEN /\ pc' = "raised"
                   /\ ret' = o.exc
                   /\ sent' = Deliver(o.ws)
                   /\ late' = late \cup Attempt("node", o.ws)
                   /\ called' = ""
                   /\ update' = [messages |-> <<>>]
                   /\ notified' = <<>>
                   /\ UNCHANGED <<state, given>>
              ELSE /\ state' = merged
                   /\ called' = predicate(node)
                   /\ given' = merged
                   /\ sent' = Deliver(o.ws \o progress(merged))
                   /\ late' = late \cup Attempt("node", o.ws)
                                   \cup Attempt("progress callback", progress(merged))
                   /\ update' = o.upd
                   /\ notified' = progress(merged)
                   /\ ret' = nxt
                   /\ pc' \in {IF nxt \in Exceptions THEN "raised" ELSE nxt}
                             \cup (IF Attempt("progress callback", progress(merged)) # {}
                                   THEN {"raised"} ELSE {})
           /\ UNCHANGED <<websocket, keeps_undeclared, terminal, connected, self_state, server, data,
                          completed>>

Step ==
    /\ pc \in Nodes
    /\ \E r \in (IF pc = "manual_cluster_selection"
                 THEN SeqUpTo(ReplyTexts, MaxReplies) ELSE {<<>>}) : StepFrom(pc, r)
    /\ UNCHANGED <<extracted, issued>>

\* enrich_docs.py:34 and 50-54.  The number of URLs an execution of the node
\* passes to tavily_client.extract: those collected, when the collection
\* returns.
urls_sent(node, s) ==
    IF node # "enrich_docs" \/ s.document_clusters = None THEN 0
    ELSE IF Val(s.document_clusters).type = "scalar" THEN 0
    ELSE IF collect_and_validate_urls(Val(s.document_clusters).items) = None THEN 0
    ELSE Len(Val(collect_and_validate_urls(Val(s.document_clusters).items)))

\* The same step, with the searches of a Research execution recorded.
RecordedStep ==
    /\ pc \in Nodes
    /\ \E r \in (IF pc = "manual_cluster_selection"
                 THEN SeqUpTo(ReplyTexts, MaxReplies) ELSE {<<>>}) : StepFrom(pc, r)
    /\ issued' = IF pc # "research" THEN issued
                  ELSE [issued EXCEPT
                          !.latest = Some(search_tasks(state, issued.year)),
                          !.first = IF @ = None THEN Some(search_tasks(state, issued.year)) ELSE @]
    /\ UNCHANGED extracted

\* research.py:29.  datetime.now() during a run: the calendar year may
\* change between two searches.  The clock is read when a search is built
\* and nowhere else, so the change is taken when Research is about to run
\* again; "this year" is the year of the first search.
NewYear ==
    /\ pc = "research"
    /\ issued.first # None
    /\ issued.year = "this year"
    /\ issued' = [issued EXCEPT !.year = "next year"]
    /\ UNCHANGED <<pc, state, websocket, keeps_undeclared, last, called, given, received, ret, sent,
                   terminal, update, replied, notified, connected, late, self_state, server, data,
                   extracted, completed>>

\* The same step, with the URLs it sends to the extraction counted.
CountedStep ==
    /\ pc \in Nodes
    /\ \E r \in (IF pc = "manual_cluster_selection"
                 THEN SeqUpTo(ReplyTexts, MaxReplies) ELSE {<<>>}) : StepFrom(pc, r)
    /\ extracted' = IF extracted + urls_sent(pc, state) > MaxExtracted
                    THEN MaxExtracted ELSE extracted + urls_sent(pc, state)
    /\ UNCHANGED issued

\* A slip: the completion message sent outside the try, after the handlers.
AfterRun_completed_anyway ==
    /\ pc \in {"END", "raised"}
    /\ LET message == "completed"
           first == IF pc = "END" THEN {"progress callback"} ELSE {"error handler"}
       IN /\ sent' = Deliver(<<message>>)
          /\ terminal' = IF connected THEN message ELSE terminal
          /\ late' \in IF connected
                       THEN {late}
                       ELSE {late \cup first,
                             late \cup first \cup {"error handler"},
                             late \cup first \cup {"error handler", "outer handler"}}
    /\ pc' = "finally"
    /\ UNCHANGED <<state, websocket, keeps_undeclared, last, called, given, received, ret, update, replied,
                   notified, connected, self_state, server, data, extracted, completed, issued>>

\* app.py:87-105.  Graph.run is over.  When it returned, the completion
\* message is sent (87-88); when it raised, except Exception sends the
\* error message (95-98).  On a dropped connection each of these sends
\* returns or raises: a raise of the completion send is caught by except
\* Exception (95-97), a raise of that handler's send reaches the outer
\* handlers, of which except Exception sends once more (102-105).
AfterRun ==
    /\ pc \in {"END", "raised"}
    /\ LET message == IF pc = "END" THEN "completed" ELSE "unexpected error"
           first == IF pc = "END" THEN {"progress callback"} ELSE {"error handler"}
       IN /\ sent' = Deliver(<<message>>)
          /\ terminal' = IF connected THEN message ELSE terminal
          /\ late' \in IF connected
                       THEN {late}
                       ELSE {late \cup first,
                             late \cup first \cup {"error handler"},
                             late \cup first \cup {"error handler", "outer handler"}}
    /\ pc' = "finally"
    /\ UNCHANGED <<state, websocket, keeps_undeclared, last, called, given, received, ret, update, replied,
                   notified, connected, self_state, server, data, extracted, completed, issued>>

\* app.py:106-108
Close ==
    /\ pc = "finally"
    /\ pc' = "closed"
    /\ UNCHANGED <<state, websocket, keeps_undeclared, last, called, given, received, ret, sent, terminal,
                   update, replied, notified, connected, late, self_state, server, data, extracted, completed, issued>>

Next == Receive \/ Step \/ AfterRun \/ Close

Spec == Init /\ [][Next]_vars

\* The event loop runs every coroutine that can run: a step that stays
\* enabled is eventually taken.
FairSpec == Init /\ [][Next]_vars /\ WF_vars(Next)

RecordedNext == Receive \/ RecordedStep \/ NewYear \/ AfterRun \/ Close

RecordedSpec == Init /\ [][RecordedNext]_vars

CountedNext == Receive \/ CountedStep \/ AfterRun \/ Close

CountedSpec == Init /\ [][CountedNext]_vars

\* The client drops the connection while the run is suspended inside a
\* node.  Nothing in app.py or graph.py observes the drop: the handler
\* learns of it at its next send or receive on the connection.
Drop ==
    /\ pc \in Nodes
    /\ connected
    /\ connected' = FALSE
    /\ UNCHANGED <<pc, state, websocket, keeps_undeclared, last, called, given, received, ret, sent,
                   terminal, update, replied, notified, late, self_state, server, data, extracted, completed, issued>>

DropNext == Next \/ Drop

DropSpec == Init /\ [][DropNext]_vars

\* ------------------------------------------- the predicates and nodes alone
\* classes.py:45-56.  A ReportEvaluation object, the kind of value whose
\* attribute grade the evaluation predicate reads.
ReportEvaluation(g, gaps) == [type |-> "ReportEvaluation", grade |-> g, critical_gaps |-> gaps]

\* The document_clusters values the Cluster node writes for replies of at
\* most MaxSelectable entries, one of each kind.
SelectableEntries == {e \in ClusterEntries : e.kind # "ok" \/ e.urls = <<"a">>}
ClusterOutputs ==
    {cluster(InitialState(FALSE), reply).document_clusters :
        reply \in ClusterRepliesOf(SelectableEntries, MaxSelectable)}

\* States the predicates and the manual selection are applied to: the
\* initial state with eval, or documents, or chosen_cluster and
\* document_clusters set to each value of a bounded set.
UnitStates ==
    {[InitialState(FALSE) EXCEPT !.eval = e] :
        e \in {None}
              \cup {Some(EvalDict(g, c)) : g \in 0..MaxGrade, c \in {"absent", "listed", "synthetic"}}
              \cup {Some(ReportEvaluation(g, c)) : g \in 0..MaxGrade, c \in {"absent", "listed"}}}
    \cup {[InitialState(FALSE) EXCEPT !.documents = d] :
            d \in {None} \cup {Some(S) : S \in SUBSET (URLS \cup {"c"})}}
    \cup {[InitialState(FALSE) EXCEPT !.chosen_cluster = c] :
            c \in {None} \cup {Some(n) : n \in (0 - 1)..MaxSelectable}}
    \cup {[InitialState(FALSE) EXCEPT !.document_clusters = dc] :
            dc \in {None} \cup ClusterOutputs}
    \cup {[InitialState(FALSE) EXCEPT !.report = Some("itinerary")]}

UnitInit ==
    /\ pc = "unit"
    /\ keeps_undeclared = FALSE
    /\ state \in UnitStates
    /\ websocket \in BOOLEAN
    /\ last = ""
    /\ called = ""
    /\ given = state
    /\ received = <<>>
    /\ ret = ""
    /\ sent = <<>>
    /\ terminal = "none"
    /\ update = [messages |-> <<>>]
    /\ replied = NoReply
    /\ notified = <<>>
    /\ connected = TRUE
    /\ late = {}
    /\ self_state = Some(state)
    /\ server = NoGraphs
    /\ data = None
    /\ extracted = 0
    /\ completed = <<>>
    /\ issued = NoSearches

\* A routing predicate evaluated once on the given state.
Apply(name, result) ==
    /\ pc = "unit"
    /\ called = ""
    /\ called' = name
    /\ given' = state
    /\ ret' = result
    /\ UNCHANGED <<pc, state, websocket, keeps_undeclared, last, received, sent, terminal, update, replied,
                   notified, connected, late, self_state, server, data, extracted, completed, issued>>

Apply_route_based_on_cluster ==
    Apply("route_based_on_cluster", route_based_on_cluster(state))

Apply_route_after_manual_selection ==
    Apply("route_after_manual_selection", route_after_manual_selection(state))

Apply_should_continue_research ==
    Apply("should_continue_research", should_continue_research(state))

Apply_route_based_on_evaluation ==
    Apply("route_based_on_evaluation", route_based_on_evaluation(state))

\* The manual selection run by the graph on a given state, with the replies
\* the client sends, followed by its conditional edge.
Apply_manual_cluster_selection ==
    /\ pc = "unit"
    /\ called = ""
    /\ \E r \in SeqUpTo(ReplyTexts, MaxReplies) : StepFrom("manual_cluster_selection", r)
    /\ UNCHANGED <<extracted, issued>>

\* The Evaluate node run by the graph on a given state, followed by its
\* conditional edge.
Apply_evaluate_itinerary ==
    /\ pc = "unit"
    /\ called = ""
    /\ StepFrom("eval_report", <<>>)
    /\ UNCHANGED <<extracted, issued>>

UnitNext ==
    \/ Apply_route_based_on_cluster
    \/ Apply_route_after_manual_selection
    \/ Apply_should_continue_research
    \/ Apply_route_based_on_evaluation
    \/ Apply_manual_cluster_selection
    \/ Apply_evaluate_itinerary

UnitSpec == UnitInit /\ [][UnitNext]_vars

\* ------------------------------------------------ single functions alone
\* A function's input, one of a bounded set, before the function is applied.
InitGiven(inputs) ==
    /\ pc = "unit"
    /\ keeps_undeclared = FALSE
    /\ state = InitialState(FALSE)
    /\ websocket = FALSE
    /\ last = ""
    /\ called = ""
    /\ given \in inputs
    /\ received = <<>>
    /\ ret = ""
    /\ sent = <<>>
    /\ terminal = "none"
    /\ update = [messages |-> <<>>]
    /\ replied = NoReply
    /\ notified = <<>>
    /\ connected = TRUE
    /\ late = {}
    /\ self_state = None
    /\ server = NoGraphs
    /\ data = None
    /\ extracted = 0
    /\ completed = <<>>
    /\ issued = NoSearches

\* The function called once on the given input.
ApplyTo(name, result) ==
    /\ pc = "unit"
    /\ called = ""
    /\ called' = name
    /\ ret' = result
    /\ UNCHANGED <<pc, state, websocket, keeps_undeclared, last, given, received, sent, terminal, update,
                   replied, notified, connected, late, self_state, server, data, extracted, completed, issued>>

\* The k-th cluster's own URLs, n of them: "k1", "k2", ...
Urls(k, n) == [i \in 1..n |-> ToString(k) \o ToString(i)]

\* The cluster a list may hold at position k: one, MAX_URLS_PER_CLUSTER or
\* MaxUrls URLs of its own; URLs of the first cluster, twice, among an
\* invalid one and one of its own; or a urls value that is no list.
EnrichShapes == {"one", "cap", "max", "shared", "bad_urls"}
EnrichEntry(k, shape) ==
    CASE shape = "one" -> [kind |-> "ok", urls |-> Urls(k, 1)]
      [] shape = "cap" -> [kind |-> "ok", urls |-> Urls(k, MAX_URLS_PER_CLUSTER)]
      [] shape = "max" -> [kind |-> "ok", urls |-> Urls(k, MaxUrls)]
      [] shape = "shared" ->
            [kind |-> "ok", urls |-> <<NotAUrl>> \o Urls(1, 2) \o Urls(1, 2) \o Urls(k, 1)]
      [] shape = "bad_urls" -> [kind |-> "bad_urls", urls |-> <<>>]

\* enrich_docs.py:78.  The lists of clusters the collection is given.
EnrichInputs ==
    {[k \in 1..Len(shapes) |-> EnrichEntry(k, shapes[k])] :
        shapes \in UNION {[1..n -> EnrichShapes] : n \in 0..MaxEnrichClusters}}

EnrichInit == InitGiven(EnrichInputs)

Apply_collect_and_validate_urls ==
    ApplyTo("collect_and_validate_urls", collect_and_validate_urls(given))

EnrichSpec == EnrichInit /\ [][Apply_collect_and_validate_urls]_vars

\* The clusters of a state Enrich is run on: as above, or one whose only URL
\* is invalid.
ChosenShapes == {"one", "shared", "bad_urls", "invalid"}
ChosenEntry(k, shape) ==
    IF shape = "invalid" THEN [kind |-> "ok", urls |-> <<NotAUrl>>]
    ELSE EnrichEntry(k, shape)

\* enrich_docs.py:26-29.  The states Enrich is run on; chosen_cluster is
\* set by the run.
ChosenInputs ==
    {[InitialState(FALSE) EXCEPT
        !.document_clusters =
            Some(ListOf([k \in 1..Len(shapes) |-> ChosenEntry(k, shapes[k])]))] :
        shapes \in SeqUpTo(ChosenShapes, MaxSelectable)}

ChosenInit == InitGiven(ChosenInputs)

\* enrich_docs.py:34.  What the node passes to the extraction: the URLs
\* collected from state['document_clusters'].
urls_to_extract_of(s) ==
    collect_and_validate_urls(Val(s.document_clusters).items)

\* enrich_docs.py:115-125.  The valid URLs of every cluster, cluster after
\* cluster.
RECURSIVE every_cluster(_)
every_cluster(clusters) ==
    IF clusters = <<>> THEN <<>>
    ELSE (IF Head(clusters).kind = "bad_urls" THEN <<>> ELSE Filter(Head(clusters).urls))
         \o every_cluster(Tail(clusters))

\* Enrich run on the same state twice, once with chosen_cluster = 0 and once
\* with chosen_cluster = 2: the URLs each run sends and what each may return.
Apply_curate ==
    LET with_0 == [given EXCEPT !.chosen_cluster = Some(0)]
        with_2 == [given EXCEPT !.chosen_cluster = Some(2)]
    IN ApplyTo("curate",
               [urls |-> <<urls_to_extract_of(with_0), urls_to_extract_of(with_2)>>,
                outcomes |-> <<curate(with_0), curate(with_2)>>])

ChosenSpec == ChosenInit /\ [][Apply_curate]_vars

\* A search result: its url and what else it carries.  Two results with
\* the same url and different content tell which of them a merge kept.
Results ==
    {[url |-> "a", content |-> "x"], [url |-> "a", content |-> "y"],
     [url |-> "b", content |-> "x"]}

\* What one search gives: a list of results, or an exception.
Responses ==
    {[raises |-> FALSE, results |-> rs] : rs \in SeqUpTo(Results, MaxResults)}
    \cup {[raises |-> TRUE, results |-> <<>>]}

\* The searches of one node execution, in the order of its queries.
SearchInputs == SeqUpTo(Responses, MaxQueries)

\* url in dict, for a dict kept as the list of its entries in insertion order.
HasKey(dict, url) == \E i \in 1..Len(dict) : dict[i].url = url

\* A slip: a later result with the same url replaces the entry.
RECURSIVE merge_results_last_kept(_, _)
merge_results_last_kept(dict, results) ==
    IF results = <<>> THEN dict
    ELSE LET r == Head(results)
         IN merge_results_last_kept(
                IF HasKey(dict, r.url)
                THEN [i \in 1..Len(dict) |-> IF dict[i].url = r.url THEN r ELSE dict[i]]
                ELSE Append(dict, r),
                Tail(results))

\* initial_grounding.py:61-70, research.py:66-72 and 89-99.  The loop over
\* results: a result is stored under its url unless the url is a key already.
RECURSIVE merge_results(_, _)
merge_results(dict, results) ==
    IF results = <<>> THEN dict
    ELSE LET r == Head(results)
         IN merge_results(IF HasKey(dict, r.url) THEN dict ELSE Append(dict, r),
                          Tail(results))

\* initial_grounding.py:51-75.  One search after the other, each merged
\* into initial_data; an exception ends the loop and keeps what was merged.
RECURSIVE initial_data_of(_, _)
initial_data_of(dict, responses) ==
    IF responses = <<>> THEN dict
    ELSE IF Head(responses).raises THEN dict
    ELSE initial_data_of(merge_results(dict, Head(responses).results), Tail(responses))

\* research.py:50-75.  A search that raises gives []; the responses are
\* combined in the order of the queries, the first result of a url kept.
RECURSIVE search_results_of(_, _)
search_results_of(dict, responses) ==
    IF responses = <<>> THEN dict
    ELSE search_results_of(
            merge_results(dict, IF Head(responses).raises THEN <<>> ELSE Head(responses).results),
            Tail(responses))

\* research.py:83-99.  documents starts empty and takes the combined
\* results, each under its url unless the url is empty or a key already.
RECURSIVE Truthy(_)
Truthy(results) ==
    IF results = <<>> THEN <<>>
    ELSE IF Head(results).url # "" THEN <<Head(results)>> \o Truthy(Tail(results))
    ELSE Truthy(Tail(results))
documents_of(responses) == merge_results(<<>>, Truthy(search_results_of(<<>>, responses)))

MergeInit == InitGiven(SearchInputs)

\* ------------------------------------------- the searches of one Research
\* The searches of one Research execution, each with at most one result.
ConcurrentInputs ==
    SeqUpTo({r \in Responses : Len(r.results) <= 1}, MaxQueries)

ConcurrentInit == InitGiven(ConcurrentInputs)

\* research.py:25-56.  One of the search tasks completes; the tasks run
\* concurrently and complete in any order.
perform_search ==
    /\ pc = "unit"
    /\ called = ""
    /\ \E i \in 1..Len(given) :
        /\ \A k \in 1..Len(completed) : completed[k] # i
        /\ completed' = Append(completed, i)
    /\ UNCHANGED <<pc, state, websocket, keeps_undeclared, last, called, given, received, ret, sent,
                   terminal, update, replied, notified, connected, late, self_state, server, data,
                   extracted, issued>>

\* A slip: the responses taken in the order of completion.
gather_as_completed(responses, order) == [k \in 1..Len(order) |-> responses[order[k]]]

\* research.py:59-60.  asyncio.gather gives the responses in the order of
\* the tasks it was passed, whatever the order they completed in.
gather(responses, order) == responses

\* A slip: the results combined as soon as one search has completed.
research_returns_first_completed ==
    /\ pc = "unit"
    /\ called = ""
    /\ completed # <<>>
    /\ called' = "research"
    /\ ret' = documents_of(gather_as_completed(given, completed))
    /\ UNCHANGED <<pc, state, websocket, keeps_undeclared, last, given, received, sent, terminal, update,
                   replied, notified, connected, late, self_state, server, data, extracted, completed, issued>>

\* research.py:59-75 and 83-99.  The await of gather resumes when every
\* search has completed; the responses are combined and stored.
research_returns ==
    /\ pc = "unit"
    /\ called = ""
    /\ \A i \in 1..Len(given) : \E k \in 1..Len(completed) : completed[k] = i
    /\ called' = "research"
    /\ ret' = documents_of(gather(given, completed))
    /\ UNCHANGED <<pc, state, websocket, keeps_undeclared, last, given, received, sent, terminal, update,
                   replied, notified, connected, late, self_state, server, data, extracted, completed, issued>>

ConcurrentNext == perform_search \/ research_returns

ConcurrentSpec == ConcurrentInit /\ [][ConcurrentNext]_vars

Apply_initial_search == ApplyTo("initial_search", initial_data_of(<<>>, given))

Apply_research == ApplyTo("research", documents_of(given))

MergeNext == Apply_initial_search \/ Apply_research

MergeSpec == MergeInit /\ [][MergeNext]_vars

ValidateInit == InitGiven(Preferences)

Apply_validate_dates_and_budget ==
    ApplyTo("validate_dates_and_budget", validate_dates_and_budget(given))

ValidateSpec == ValidateInit /\ [][Apply_validate_dates_and_budget]_vars

\* ------------------------------------------------- the Graph object alone
\* graph.py:28-51.  A Graph just constructed: self.state is None.
GraphInit ==
    /\ pc = "constructed"
    /\ keeps_undeclared \in BOOLEAN
    /\ state = InitialState(keeps_undeclared)
    /\ websocket = TRUE
    /\ last = ""
    /\ called = ""
    /\ given = state
    /\ received = <<>>
    /\ ret = ""
    /\ sent = <<>>
    /\ terminal = "none"
    /\ update = [messages |-> <<>>]
    /\ replied = NoReply
    /\ notified = <<>>
    /\ connected = TRUE
    /\ late = {}
    /\ self_state = None
    /\ server = NoGraphs
    /\ data = None
    /\ extracted = 0
    /\ completed = <<>>
    /\ issued = NoSearches

\* graph.py:106-118
initialize_state ==
    /\ pc = "constructed"
    /\ self_state = None
    /\ self_state' = Some(InitialState(keeps_undeclared))
    /\ UNCHANGED <<pc, state, websocket, keeps_undeclared, last, called, given, received, ret, sent,
                   terminal, update, replied, notified, connected, late, server, data, extracted, completed, issued>>

\* A slip: the stream started without looking at self.state.
Graph_run_unchecked ==
    /\ pc = "constructed"
    /\ pc' = "initial_grounding"
    /\ sent' = Deliver(progress(state))
    /\ notified' = progress(state)
    /\ UNCHANGED <<state, ret, websocket, keeps_undeclared, last, called, given, received, terminal,
                   update, replied, connected, late, self_state, server, data, extracted, completed, issued>>

\* graph.py:120-146, Graph.run up to the first streamed value: ValueError
\* when self.state is None, else the stream starts from self.state.
Graph_run ==
    /\ pc = "constructed"
    /\ IF self_state = None
       THEN /\ pc' = "raised"
            /\ ret' = "ValueError"
            /\ UNCHANGED <<state, sent, notified>>
       ELSE /\ pc' = "initial_grounding"
            /\ state' = Val(self_state)
            /\ sent' = Deliver(progress(Val(self_state)))
            /\ notified' = progress(Val(self_state))
            /\ ret' = ret
    /\ UNCHANGED <<websocket, keeps_undeclared, last, called, given, received, terminal, update, replied,
                   connected, late, self_state, server, data, extracted, completed, issued>>

GraphNext == initialize_state \/ Graph_run \/ Step

GraphSpec == GraphInit /\ [][GraphNext]_vars

\* ------------------------------------------------- two connections at once
\* Two clients connected to the same server process, each served by its
\* own call of websocket_endpoint.
Connections == {1, 2}

\* graph.py:133-134, the thread identifier every run passes to the engine.
thread_id == "2"

\* A slip: one MemorySaver for the whole process.
MemorySaver_shared(c) == 1

\* graph.py:38, self.memory = MemorySaver(): the checkpoint store of the
\* Graph built for connection c is a new object, named here by c.
MemorySaver(c) == c

\* Before any Graph is built: each connection accepted, every checkpoint
\* store empty.
Accepted ==
    [graph |-> [c \in Connections |->
                    [phase |-> "accepted", memory |-> 0, state |-> {}, messages |-> {}]],
     checkpoints |-> [m \in Connections |-> [th \in {thread_id} |-> None]],
     delivered |-> [c \in Connections |-> {}]]

PairInit ==
    /\ pc = "accepted"
    /\ keeps_undeclared = FALSE
    /\ state = InitialState(FALSE)
    /\ websocket = TRUE
    /\ last = ""
    /\ called = ""
    /\ given = state
    /\ received = <<>>
    /\ ret = ""
    /\ sent = <<>>
    /\ terminal = "none"
    /\ update = [messages |-> <<>>]
    /\ replied = NoReply
    /\ notified = <<>>
    /\ connected = TRUE
    /\ late = {}
    /\ self_state = None
    /\ data = None
    /\ extracted = 0
    /\ completed = <<>>
    /\ issued = NoSearches
    /\ server = Accepted

\* app.py:82-83 with graph.py:28-43 and 106-118.  The endpoint of connection
\* c builds its Graph: a new checkpoint store, a new message list, a new
\* ResearchState.
BuildGraph(c) ==
    /\ server.graph[c].phase = "accepted"
    /\ server' = [server EXCEPT
                    !.graph[c] = [phase |-> "built", memory |-> MemorySaver(c),
                                  state |-> {}, messages |-> {}]]

\* graph.py:133-140.  Graph.run compiles the workflow with the Graph's
\* checkpoint store and starts the stream under thread_id: the engine
\* resumes from the checkpoint the store holds for that thread, if any,
\* and applies the input state to it.
StartRun(c) ==
    /\ server.graph[c].phase = "built"
    /\ LET saved == server.checkpoints[server.graph[c].memory][thread_id]
       IN server' = [server EXCEPT
                       !.graph[c].phase = "running",
                       !.graph[c].state = IF saved = None THEN {} ELSE Val(saved).state,
                       !.graph[c].messages = IF saved = None THEN {} ELSE Val(saved).messages]

\* graph.py:140-146.  One node of run c finishes: it adds a document found
\* for c's preferences and a message, the engine saves the checkpoint in
\* the run's store, and the stream loop passes the message to c's
\* send_progress, which writes to c's connection (app.py:55-63).
RunStep(c) ==
    /\ server.graph[c].phase = "running"
    /\ \E url \in URLS \cup {"c"} :
        LET g == [server.graph[c] EXCEPT !.state = @ \cup {<<c, url>>},
                                         !.messages = @ \cup {<<c, url>>}]
        IN server' = [server EXCEPT
                        !.graph[c] = g,
                        !.checkpoints[g.memory][thread_id] =
                            Some([state |-> g.state, messages |-> g.messages]),
                        !.delivered[c] = @ \cup {<<c, url>>}]

\* app.py:87-108.  Graph.run returns and the endpoint ends.
EndRun(c) ==
    /\ server.graph[c].phase = "running"
    /\ server' = [server EXCEPT !.graph[c].phase = "done"]

PairStep(c) == BuildGraph(c) \/ StartRun(c) \/ RunStep(c) \/ EndRun(c)

PairNext ==
    /\ \E c \in Connections : PairStep(c)
    /\ UNCHANGED <<pc, state, websocket, keeps_undeclared, last, called, given, received, ret, sent,
                   terminal, update, replied, notified, connected, late, self_state, data, extracted, completed, issued>>

PairSpec == PairInit /\ [][PairNext]_vars

\* ================================================================= claims

\* C1.  For every eval record the Evaluate node writes with grade 1, 2 or 3,
\* route_based_on_evaluation returns "research" when the grade is 1 and
\* "publish" otherwise.
C1_RouteOnEvaluation ==
    (called = "route_based_on_evaluation" /\ Val(given.eval).grade \in {1, 2, 3})
        => ret = IF Val(given.eval).grade = 1 THEN "research" ELSE "publish"

\* C3.  Every run terminates: under fair scheduling it eventually reaches
\* Publish or a terminal failure.
C3_RunTerminates == <>(pc \in {"publish", "END", "raised", "finally", "closed"})

\* C4.  The client of every run eventually receives a terminal message, the
\* completion message or an explicit failure message.
C4_TerminalMessage == <>(terminal # "none")

\* C5.  route_based_on_cluster returns "enrich_docs" if and only if
\* chosen_cluster is not null, whatever its sign, and
\* "manual_cluster_selection" otherwise.
C5_RouteBasedOnCluster ==
    called = "route_based_on_cluster"
        => /\ ret \in {"enrich_docs", "manual_cluster_selection"}
           /\ (ret = "enrich_docs") <=> (given.chosen_cluster # None)

C5_Witness ==
    /\ called = "route_based_on_cluster"
    /\ given.chosen_cluster = Some(0 - 1)
    /\ ret = "enrich_docs"

\* C6.  route_after_manual_selection returns "enrich_docs" if and only if
\* chosen_cluster >= 0 and "cluster" for every other integer; when the graph
\* calls it, after the manual selection returned, chosen_cluster is an
\* integer.
C6_RouteAfterManualSelection ==
    called = "route_after_manual_selection"
        => /\ last = "manual_cluster_selection" => given.chosen_cluster # None
           /\ given.chosen_cluster # None
                => /\ ret \in {"enrich_docs", "cluster"}
                   /\ (ret = "enrich_docs") <=> (Val(given.chosen_cluster) >= 0)

C6_Witness ==
    /\ called = "route_after_manual_selection"
    /\ given.chosen_cluster = Some(0)
    /\ ret = "enrich_docs"

\* C7.  should_continue_research returns "research" if and only if documents
\* holds fewer than 2 entries and "generate_report" otherwise, also with
\* exactly 2.
C7_ShouldContinueResearch ==
    (called = "should_continue_research" /\ given.documents # None)
        => /\ ret \in {"research", "generate_report"}
           /\ (ret = "research") <=> (Cardinality(Val(given.documents)) < 2)

C7_Witness ==
    /\ called = "should_continue_research"
    /\ given.documents # None
    /\ Cardinality(Val(given.documents)) = 2
    /\ ret = "generate_report"

\* C8.  Each routing predicate is total: on every state it returns one of
\* its route names and never raises.
C8_PredicatesTotal == called # "" => ret \notin Exceptions

\* C9.  Whenever a node from Enrich onward starts with chosen_cluster >= 0,
\* chosen_cluster indexes an entry of document_clusters.
C9_ChosenClusterValid ==
    (/\ pc \in {"enrich_docs", "generate_report", "eval_report", "publish"}
     /\ state.chosen_cluster # None
     /\ Val(state.chosen_cluster) >= 0)
        => /\ state.document_clusters # None
           /\ len_clusters(Val(state.document_clusters)) # None
           /\ Val(state.chosen_cluster) < Val(len_clusters(Val(state.document_clusters)))

\* C10.  With an interactive channel, n clusters and a reply that is a number
\* k with 1 <= k <= n, the manual selection returns chosen_cluster = k-1 and
\* the next node is Enrich.
C10_ValidSelection ==
    (/\ last = "manual_cluster_selection"
     /\ websocket
     /\ given.document_clusters # None
     /\ len_clusters(Val(given.document_clusters)) # None
     /\ Len(received) = 1
     /\ int(received[1]) # None
     /\ 1 <= Val(int(received[1]))
     /\ Val(int(received[1])) <= Val(len_clusters(Val(given.document_clusters))))
        => /\ pc = "enrich_docs"
           /\ state.chosen_cluster = Some(Val(int(received[1])) - 1)

\* C11.  With an interactive channel and the reply "0", the manual selection
\* returns chosen_cluster = -1 and the next node is Cluster.
C11_RejectReclusters ==
    (/\ last = "manual_cluster_selection"
     /\ websocket
     /\ given.document_clusters # None
     /\ len_clusters(Val(given.document_clusters)) # None
     /\ received # <<>>
     /\ received[1] = "0")
        => /\ pc = "cluster"
           /\ ret = "cluster"
           /\ state.chosen_cluster = Some(0 - 1)

C11_Witness ==
    /\ last = "manual_cluster_selection"
    /\ websocket
    /\ received = <<"0">>
    /\ given.document_clusters # None
    /\ len_clusters(Val(given.document_clusters)) = Some(3)
    /\ state.chosen_cluster = Some(0 - 1)
    /\ pc = "cluster"

\* C12.  While every reply received is no number or a number outside 0..n,
\* the manual selection has not returned: it has sent one re-prompt per
\* reply, waits for another reply, and the state is unchanged.
C12_InvalidRepliesReprompt ==
    (/\ last = "manual_cluster_selection"
     /\ websocket
     /\ given.document_clusters # None
     /\ len_clusters(Val(given.document_clusters)) # None
     /\ received # <<>>
     /\ LET n == Val(len_clusters(Val(given.document_clusters)))
        IN \A i \in 1..Len(received) :
            received[i] \in {"abc", "-1"} \cup (IF n < 4 THEN {"4"} ELSE {})
                                         \cup (IF n < 9 THEN {"9"} ELSE {}))
        => /\ pc = "awaiting reply"
           /\ state = given
           /\ update.messages = <<>>
           /\ Len(sent) = Len(received) + 1
           /\ \A i \in 2..Len(sent) : sent[i] \in {"invalid input", "invalid choice"}

C12_Witness ==
    /\ last = "manual_cluster_selection"
    /\ websocket
    /\ received = <<"abc", "9">>
    /\ given.document_clusters # None
    /\ len_clusters(Val(given.document_clusters)) = Some(3)
    /\ sent = <<"manual: prompt", "invalid input", "invalid choice">>
    /\ pc = "awaiting reply"

\* C13.  Without an interactive channel the manual selection never waits for
\* a reply and sends nothing; given clusters, it returns at once with a
\* message flagged as manual selection and chosen_cluster = -1.
C13_NoChannelNoWait ==
    (last = "manual_cluster_selection" /\ ~websocket)
        => /\ pc # "awaiting reply"
           /\ sent = <<>>
           /\ (given.document_clusters # None
               /\ len_clusters(Val(given.document_clusters)) # None)
                => /\ pc = "cluster"
                   /\ state.chosen_cluster = Some(0 - 1)
                   /\ state.last_message = Some(ManualMsg("manual: needed"))

C13_Witness ==
    /\ last = "manual_cluster_selection"
    /\ ~websocket
    /\ received # <<>>
    /\ pc = "cluster"
    /\ state.last_message = Some(ManualMsg("manual: needed"))

\* C14.  The progress callback is invoked only with the content of a message
\* that is not flagged as manual selection.
C14_FlaggedNeverNotified ==
    \A i \in 1..Len(notified) :
        /\ state.last_message # None
        /\ ~Val(state.last_message).is_manual_selection
        /\ notified[i] = Val(state.last_message).content
        /\ notified[i] \notin {"manual: recluster", "manual: selected", "manual: needed"}

C14_Witness ==
    /\ last = "manual_cluster_selection"
    /\ state.last_message = Some(ManualMsg("manual: recluster"))
    /\ sent = <<"manual: prompt", "manual: recluster">>
    /\ notified = <<>>
    /\ pc = "cluster"

\* C15.  The progress callback is invoked exactly once for each unflagged
\* message a node appends, in order: for the initial state and for a step
\* whose node appended no message it is not invoked.
C15_NotifiedOncePerMessage ==
    /\ (pc = "initial_grounding" /\ last = "") => notified = <<>>
    /\ last \in Nodes
        => LET appended == IF "messages" \in DOMAIN update THEN update.messages ELSE <<>>
               unflagged == SelectSeq(appended, LAMBDA m : ~m.is_manual_selection)
           IN notified = [i \in 1..Len(unflagged) |-> unflagged[i].content]

\* C16.  After every node execution that returned, the previous messages are
\* a prefix of the new ones, the returned messages follow them, and every
\* other field the node returned holds the returned value.
C16_AppendOnlyAndReplace ==
    [][(/\ pc \in Nodes
        /\ pc' # "awaiting reply"
        /\ ~(pc' = "raised" /\ called' = ""))
       => /\ Len(state.messages) <= Len(state'.messages)
          /\ SubSeq(state'.messages, 1, Len(state.messages)) = state.messages
          /\ ("messages" \in DOMAIN update'
              /\ Len(state.messages) + Len(update'.messages) <= MaxLog)
                => state'.messages = state.messages \o update'.messages
          /\ \A k \in DOMAIN update' \ {"messages"} : state'[k] = update'[k]]_vars

\* C17.  The Cluster node does not raise, and when the clustering output is
\* malformed (no JSON object, unparseable JSON, no clusters key, clusters no
\* list, an invalid entry) the document_clusters it writes is the empty list.
C17_MalformedGivesEmpty ==
    last = "cluster"
        => /\ ~(pc = "raised" /\ called = "")
           /\ (\/ replied.shape \in {"no_json", "no_json_end", "bad_json", "no_clusters_key"}
               \/ (replied.shape = "parsed" /\ validate_clusters(replied) # ""))
                => state.document_clusters = Some(ListOf(<<>>))

\* C18.  When the clustering output is malformed, the update of the Cluster
\* node appends a diagnostic message, which reaches the progress feed.
C18_MalformedGivesDiagnostic ==
    (/\ last = "cluster"
     /\ \/ replied.shape \in {"no_json", "no_json_end", "bad_json", "no_clusters_key"}
        \/ (replied.shape = "parsed" /\ validate_clusters(replied) # ""))
        => /\ "messages" \in DOMAIN update
           /\ update.messages = <<Msg("cluster: error")>>
           /\ notified = <<"cluster: error">>

\* C19.  The Evaluate node never raises; when the report is missing, the
\* grading call fails, or its answer is no JSON or holds no grade, the eval it
\* writes has grade 1 and exactly one synthetic gap.
C19_EvaluateNeverRaises ==
    last = "eval_report"
        => /\ ~(pc = "raised" /\ called = "")
           /\ state.eval # None
           /\ (given.report = None \/ replied.shape # "graded")
                => state.eval = Some(EvalDict(1, "synthetic"))

C19_Witness ==
    /\ last = "eval_report"
    /\ given.report # None
    /\ replied.shape = "bad_json"
    /\ state.eval = Some(EvalDict(1, "synthetic"))

\* C20.  In every eval the Evaluate node has written, grade is 1, 2 or 3 and
\* critical_gaps is present only when grade is 1.
C20_GradeInRange ==
    (last = "eval_report" /\ state.eval # None)
        => /\ Val(state.eval).grade \in {1, 2, 3}
           /\ Val(state.eval).critical_gaps # "absent" => Val(state.eval).grade = 1

\* C21.  The node about to run and the node that ran before it are always an
\* edge of the workflow: Ground first, then Decompose, Research, Cluster,
\* then the conditional edges; one node at a time (pc), none after Publish.
C21_NodeSequence ==
    /\ pc \in Nodes
        => <<last, pc>> \in
            {<<"", "initial_grounding">>,
             <<"initial_grounding", "sub_questions_gen">>,
             <<"sub_questions_gen", "research">>,
             <<"research", "cluster">>,
             <<"cluster", "enrich_docs">>,
             <<"cluster", "manual_cluster_selection">>,
             <<"manual_cluster_selection", "enrich_docs">>,
             <<"manual_cluster_selection", "cluster">>,
             <<"enrich_docs", "research">>,
             <<"enrich_docs", "generate_report">>,
             <<"generate_report", "eval_report">>,
             <<"eval_report", "research">>,
             <<"eval_report", "publish">>}
    /\ last = "publish" => pc \notin Nodes

C21_Witness ==
    /\ last = "enrich_docs"
    /\ pc = "research"
    /\ Len(state.messages) >= 3

\* C22.  When the client drops the connection while the run is suspended,
\* no send is attempted on the connection afterwards, neither by the
\* progress callback nor by the error handlers.
C22_NoSendAfterDrop == late = {}

\* C24.  validate_dates_and_budget accepts every preferences object with
\* start_date < end_date and budget_min <= budget_max, and rejects every
\* other one with an error that names the rule broken.
C24_ValidateDatesAndBudget ==
    called = "validate_dates_and_budget"
        => /\ (given.start_date < given.end_date /\ given.budget_min <= given.budget_max)
                => ret = "valid"
           /\ given.start_date >= given.end_date
                => ret = "ValueError: Start date must be earlier than the end date."
           /\ (given.start_date < given.end_date /\ given.budget_min > given.budget_max)
                => ret = "ValueError: Minimum budget must not exceed maximum budget."

C24_Witness ==
    /\ called = "validate_dates_and_budget"
    /\ given.start_date < given.end_date
    /\ given.budget_min = given.budget_max
    /\ ret = "valid"

\* C25.  A payload that fails validation (dates out of order, budget
\* inverted, a date field missing or unparseable, text that is no JSON)
\* starts no run: no node executes, the client is sent a diagnostic and not
\* the completion message, and the handler ends by closing the connection.
C25_InvalidPayloadStartsNoRun ==
    (/\ data # None
     /\ \/ ~Val(data).json
        \/ Val(data).fields # "present"
        \/ Val(data).preferences.start_date >= Val(data).preferences.end_date
        \/ Val(data).preferences.budget_min > Val(data).preferences.budget_max)
        => /\ pc \in {"finally", "closed"}
           /\ last = ""
           /\ notified = <<>>
           /\ sent \in {<<"invalid preferences">>, <<"unexpected error">>}
           /\ terminal = sent[1]

C25_Witness ==
    /\ data # None
    /\ Val(data).json
    /\ Val(data).fields = "present"
    /\ Val(data).preferences.start_date < Val(data).preferences.end_date
    /\ Val(data).preferences.budget_min > Val(data).preferences.budget_max
    /\ terminal = "invalid preferences"
    /\ pc = "closed"

\* C23.  Two runs in progress at once share no mutable state: each has its
\* own checkpoint store, its state and messages hold only what its own
\* nodes wrote, and its client is sent only its own messages, although
\* both runs use the same thread identifier.
C23_RunsShareNothing ==
    /\ \A c \in Connections :
        /\ \A d \in server.graph[c].state \cup server.graph[c].messages
                    \cup server.delivered[c] : d[1] = c
        /\ server.graph[c].phase # "accepted"
            => \A th \in {thread_id} :
                 server.checkpoints[server.graph[c].memory][th] # None
                    => Val(server.checkpoints[server.graph[c].memory][th]).state
                         = server.graph[c].state
    /\ \A c, d \in Connections :
        (c # d /\ server.graph[c].phase # "accepted" /\ server.graph[d].phase # "accepted")
            => server.graph[c].memory # server.graph[d].memory

C23_Witness ==
    /\ server.graph[1].phase = "running"
    /\ server.graph[2].phase = "running"
    /\ server.graph[1].state # {}
    /\ server.graph[2].state # {}
    /\ server.checkpoints[1][thread_id] # None
    /\ server.checkpoints[2][thread_id] # None

\* C26.  Graph.run called before initialize_state raises, before any node
\* executes and before any progress notification.
C26_RunBeforeInitializeRaises ==
    (self_state = None /\ pc # "constructed")
        => /\ pc = "raised"
           /\ ret = "ValueError"
           /\ last = ""
           /\ notified = <<>>
           /\ sent = <<>>

C26_Witness ==
    /\ self_state = None
    /\ pc = "raised"
    /\ ret = "ValueError"

\* C27.  From the first Research execution onward documents holds every URL
\* of initial_data, and no execution of Research or Enrich removes a URL
\* from documents.
C27_DocumentsOnlyGrow ==
    [][(last' \in {"research", "enrich_docs"} /\ state'.documents # None)
        => /\ state'.initial_data # None
                => Val(state'.initial_data) \subseteq Val(state'.documents)
           /\ state.documents # None
                => Val(state.documents) \subseteq Val(state'.documents)]_vars

C29_ExtractedInRunCapped == extracted <= 20

\* C30.  Merging search results into initial_data (Ground) or documents
\* (Research) keeps one entry per distinct URL: no URL is a key twice, the
\* size is the number of distinct URLs among the results merged, and the
\* entry of a URL is the first result merged with that URL.
C30_MergeKeepsFirstPerUrl ==
    called \in {"initial_search", "research"}
        => LET reached(i) == called = "research" \/ \A j \in 1..(i - 1) : ~given[j].raises
               merged == {<<i, k>> \in (1..Len(given)) \X (1..MaxResults) :
                            reached(i) /\ k <= Len(given[i].results)}
               before(p, q) == p[1] < q[1] \/ (p[1] = q[1] /\ p[2] < q[2])
               result(p) == given[p[1]].results[p[2]]
           IN /\ \A i, j \in 1..Len(ret) : i # j => ret[i].url # ret[j].url
              /\ Len(ret) = Cardinality({result(p).url : p \in merged})
              /\ \A i \in 1..Len(ret) :
                    \E p \in merged :
                        /\ ret[i] = result(p)
                        /\ \A q \in merged : result(q).url = ret[i].url => ~before(q, p)

C30_Witness ==
    /\ called = "research"
    /\ Len(given) = 2
    /\ given[1].results = <<[url |-> "a", content |-> "y"]>>
    /\ given[2].results = <<[url |-> "b", content |-> "x"], [url |-> "a", content |-> "x"]>>
    /\ ret = <<[url |-> "a", content |-> "y"], [url |-> "b", content |-> "x"]>>

\* C31.  Research returns only after every one of its concurrent searches
\* has completed, in whatever order they complete, and the documents it
\* writes hold exactly one entry per distinct URL among all the results.
C31_ResearchAwaitsAllSearches ==
    called = "research"
        => /\ \A i \in 1..Len(given) : \E k \in 1..Len(completed) : completed[k] = i
           /\ \A i, j \in 1..Len(ret) : i # j => ret[i].url # ret[j].url
           /\ {ret[i].url : i \in 1..Len(ret)}
                = {given[i].results[1].url : i \in {j \in 1..Len(given) : given[j].results # <<>>}}

C31_Witness ==
    /\ called = "research"
    /\ completed = <<2, 1>>
    /\ given[1].results # <<>>
    /\ given[2].results # <<>>
    /\ given[1].results[1].url = given[2].results[1].url
    /\ Len(ret) = 1

\* C39.  For fixed results per sub-query the documents Research writes do
\* not depend on the order in which the searches complete: the record kept
\* for a URL is the one of the sub-query earliest in sub_queries.
C39_ResearchKeepsEarliestSubQuery ==
    called = "research"
        => \A e \in 1..Len(ret) :
             \E i \in 1..Len(given) :
                /\ given[i].results # <<>>
                /\ ret[e] = given[i].results[1]
                /\ \A j \in 1..(i - 1) :
                      given[j].results # <<>> => given[j].results[1].url # ret[e].url

C39_Witness ==
    /\ called = "research"
    /\ completed = <<2, 1>>
    /\ given[1].results = <<[url |-> "a", content |-> "x"]>>
    /\ given[2].results = <<[url |-> "a", content |-> "y"]>>
    /\ ret = <<[url |-> "a", content |-> "x"]>>

\* C32.  When Decompose cannot obtain sub-queries it returns sub_queries =
\* None with a diagnostic message and does not raise; a Research execution
\* that sees sub_queries = None requests no search, does not raise, and
\* returns empty documents with a diagnostic message.
C32_NoSubQueriesNoResearch ==
    /\ (last = "sub_questions_gen" /\ state.sub_queries = None)
        => /\ pc = "research"
           /\ update.messages = <<Msg("decompose: error")>>
    /\ (last = "research" /\ state.sub_queries = None)
        => /\ pc = "cluster"
           /\ replied = NoReply
           /\ state.documents = Some({})
           /\ update.messages = <<Msg("research: error")>>

C32_Witness ==
    /\ last = "research"
    /\ state.sub_queries = None
    /\ state.initial_data # None
    /\ state.documents = Some({})
    /\ pc = "cluster"

\* C33.  When the external call of Ground, Decompose, Research, Enrich,
\* Generate or Evaluate raises or returns nothing usable, the node returns
\* a diagnostic message and a default for its field, and the workflow
\* continues with the next node: no exception reaches the caller of the run.
C33_NodeErrorsSwallowed ==
    /\ (/\ last \in {"initial_grounding", "sub_questions_gen", "research", "enrich_docs",
                     "generate_report"}
        /\ update.messages # <<>>
        /\ update.messages[1].content \in
              {"ground: error", "decompose: error", "research: error", "enrich: error",
               "enrich: no content", "generate: error"})
        => pc \in Nodes
    /\ (/\ last = "eval_report"
        /\ replied.shape \in {"exception", "bad_json", "not_object", "no_grade"})
        => /\ pc \in Nodes
           /\ update.messages = <<Msg("eval: error")>>
           /\ state.eval = Some(SyntheticEval)

C35_ManualSelectionNeverRuns ==
    /\ pc \notin {"manual_cluster_selection", "awaiting reply"}
    /\ last # "manual_cluster_selection"
    /\ received = <<>>
    /\ last = "cluster"
        => /\ state.chosen_cluster = Some(0)
           /\ called = "route_based_on_cluster"
           /\ ret = "enrich_docs"
           /\ pc = "enrich_docs"

C35_Witness ==
    /\ last = "cluster"
    /\ called = "route_based_on_cluster"
    /\ state.chosen_cluster = Some(0)
    /\ state.document_clusters = Some(ListOf(<<>>))
    /\ pc = "enrich_docs"

\* C37.  Generate executes only immediately after an Enrich execution that
\* left at least two entries in documents: whenever Generate is the node to
\* run, the node before it was Enrich, should_continue_research chose it,
\* and documents holds at least min_doc_count entries; Generate leaves
\* documents as they were.
C37_GenerateOnlyAfterEnoughDocuments ==
    /\ pc = "generate_report"
        => /\ last = "enrich_docs"
           /\ called = "should_continue_research"
           /\ state.documents # None
           /\ Cardinality(Val(state.documents)) >= min_doc_count
    /\ last = "generate_report"
        => /\ state.documents # None
           /\ Cardinality(Val(state.documents)) >= min_doc_count

C37_Witness ==
    /\ pc = "generate_report"
    /\ last = "enrich_docs"
    /\ Cardinality(Val(state.documents)) = min_doc_count

\* C36.  The report Generate returns is stored in the workflow state and
\* stays as it is until the run ends: after Generate the state holds the
\* returned report, the Evaluate execution that follows reads that report
\* and so never answers "report not found", and the report is still the
\* one Generate returned after Evaluate and after Publish.
C36_ReportStoredAndKept ==
    /\ (last = "generate_report" /\ pc # "raised")
        => /\ "report" \in DOMAIN update
           /\ state.report = update.report
    /\ last = "eval_report"
        => /\ state.report \in {Some("itinerary"), Some("error report")}
           /\ update.messages # <<Msg("eval: report not found")>>
    /\ last = "publish"
        => state.report \in {Some("itinerary"), Some("error report")}

\* C38.  What Enrich does is independent of chosen_cluster: run on two
\* states that differ only in chosen_cluster (0 and 2), it sends the same
\* URLs to the extraction and may write the same documents, the URLs being
\* those of every cluster in the order of the clusters, each once.
C38_EnrichIgnoresChosenCluster ==
    called = "curate"
        => /\ ret.urls[1] = ret.urls[2]
           /\ ret.outcomes[1] = ret.outcomes[2]
           /\ ret.urls[1] = Some(dedup(every_cluster(Val(given.document_clusters).items), {}))

C38_Witness ==
    /\ called = "curate"
    /\ Len(Val(given.document_clusters).items) = 3
    /\ Val(ret.urls[2]) = <<"11", "21", "31">>
    /\ \E o \in ret.outcomes[1] : Val(o.upd.documents) = {"21", "31"}

\* C40.  Once Decompose has run, no step of the run changes the preferences
\* or sub_queries, and every Research execution issues the searches of the
\* first one: for the same sub-queries, with the same parameters, the text
\* of each ending with the calendar year at the time of the search.
C40_SameSearchesButYear ==
    [][/\ pc \in Nodes \ {"initial_grounding", "sub_questions_gen"}
          => /\ state'.sub_queries = state.sub_queries
             /\ data' = data
       /\ issued'.latest # None
          => /\ Len(Val(issued'.latest)) = Len(Val(issued'.first))
             /\ \A k \in 1..Len(Val(issued'.latest)) :
                   Val(issued'.latest)[k]
                     = [Val(issued'.first)[k] EXCEPT
                          !.query[2] = Val(issued'.latest)[k].query[2]]]_vars

C40_Witness ==
    /\ last = "research"
    /\ state.sub_queries = Some("queries")
    /\ issued.first = Some(<<search_params("query", "this year")>>)
    /\ issued.latest = Some(<<search_params("query", "next year")>>)

\* C40 as stated: every Research execution re-entered later in the run
\* issues exactly the searches of the first one.
C40_SameSearches ==
    [][/\ pc \in Nodes \ {"initial_grounding", "sub_questions_gen"}
          => /\ state'.sub_queries = state.sub_queries
             /\ data' = data
       /\ issued'.latest # None => issued'.latest = issued'.first]_vars

====
